---- MODULE Spec2Model ----
(***************************************************************************)
(* Recurrence lifecycle engine of the TPS Global Context Menu plugin:      *)
(* BulkEditService (src/src/bulk-edit-service.ts), RecurrenceService and   *)
(* SessionTracker (src/unnamed/part_001), as asynchronous tasks on one     *)
(* event loop.  A task is a call stack; a step of the model completes the  *)
(* I/O operation or prompt the task awaits and then runs the synchronous   *)
(* code up to the next await.  The vault (disk) and the metadata index     *)
(* (cache) are separate: the index follows the disk with a delay.          *)
(***************************************************************************)
EXTENDS Integers, Sequences, FiniteSets, TLC

\* ------------------------------------------------------------------ bounds
MaxDate == 3
MaxTime == 3
MaxOps == 2
MaxTasks == 2
MaxBatch == 2
TicksPerDay == 2
MaxPrompts == 1
MaxDepth == 5

\* ------------------------------------------------------------- vocabulary
Bases == {"A", "B"}
Paths == Bases \X (0..MaxDate)
NoPath == <<"", 0>>
Rules == {"daily", "once", "garbage"}
RuleVals == Rules \cup {"none"}
Statuses == {"open", "complete", "wont-do", "done"}
Choices == {"update-all", "split", "cancel"}
ChecklistChoices == {"cancel", "open", "complete", "progress", "ignore"}
Durations == {1, 2}

VARIABLES disk, cache, tracker, sessionDuration, now, settings, tasks, timers, last, ops, prompts, scan, series

vars == <<disk, cache, tracker, sessionDuration, now, settings, tasks, timers, last, ops,
          prompts, scan, series>>

\* A note's frontmatter (and the checklist state of its body).  ex = FALSE
\* stands for "no such file" on disk and for "no frontmatter indexed" in
\* the cache.  "none" / 0 stand for an absent field.
NoFile == [ex |-> FALSE, rule |-> "none", recurrence |-> "none", status |-> "none",
           scheduled |-> 0, tags |-> FALSE, priority |-> "none", title |-> "none",
           allDay |-> FALSE, todo |-> FALSE]

NoUpd == [op |-> "none", key |-> "none", val |-> "none", num |-> 0, flag |-> FALSE]

IsMd(p) == p[1] \in Bases

\* fm.recurrenceRule || fm.recurrence
RuleOf(fm) == IF fm.rule # "none" THEN fm.rule ELSE fm.recurrence

HasRule(fm) == fm.ex /\ RuleOf(fm) # "none"

\* recurrenceCompletionStatuses?.length ? ... : ['complete', 'wont-do']
recurrenceStatuses == IF settings.recurrenceCompletionStatuses # {}
                      THEN settings.recurrenceCompletionStatuses
                      ELSE {"complete", "wont-do"}

\* the hard-coded test of the prompt paths
HardTerminal(fm) == fm.status = "complete" \/ fm.status = "wont-do"

DayOf(t) == 1 + ((t - 1) \div TicksPerDay)

\* RRule.parseString: throws on an unknown property
ParseOk(rule) == rule \in {"daily", "once"}

\* getNextOccurrence with rule.after(startDate, true): dtstart itself counts
getNextOccurrenceInclusive(rule, currentDate) ==
    LET startDate == IF currentDate # 0 THEN currentDate ELSE DayOf(now)
    IN  IF ~ParseOk(rule) THEN 0
        ELSE startDate

\* rule.after(startDate, false) with dtstart = startDate: "daily" yields the
\* next day, "once" (COUNT=1) has dtstart as its only occurrence.
\* 0 stands for null.
getNextOccurrence(rule, currentDate) ==
    LET startDate == IF currentDate # 0 THEN currentDate ELSE DayOf(now)
    IN  IF ~ParseOk(rule) THEN 0
        ELSE IF rule = "daily" THEN startDate + 1
        ELSE 0

\* file.basename.replace(/ \d{4}-\d{2}-\d{2}$/, '')
baseName(p) == p[1]

\* `${baseName} ${dateStr}.md` in the parent folder
newFilePath(p, nextDate) == <<baseName(p), nextDate>>

\* wasRecentlyModified with the window closed at its last instant (>=)
wasRecentlyModifiedEarly(tr, p) ==
    IF tr[p] = 0 THEN [res |-> FALSE, tr |-> tr]
    ELSE IF now - tr[p] >= sessionDuration
         THEN [res |-> FALSE, tr |-> [tr EXCEPT ![p] = 0]]
         ELSE [res |-> TRUE, tr |-> tr]

\* SessionTracker.wasRecentlyModified: result and the tracker after the call
wasRecentlyModified(tr, p) ==
    IF tr[p] = 0 THEN [res |-> FALSE, tr |-> tr]
    ELSE IF now - tr[p] > sessionDuration
         THEN [res |-> FALSE, tr |-> [tr EXCEPT ![p] = 0]]
         ELSE [res |-> TRUE, tr |-> tr]

\* SessionTracker.markAsModified
markAsModified(tr, p) == [tr EXCEPT ![p] = now]

\* ApplyUpd with a new instance that keeps the scheduled date it was copied with
ApplyUpdKeepingDate(u, fm) ==
    CASE u.op = "set" /\ u.key = "status" -> [fm EXCEPT !.status = u.val]
      [] u.op = "set" /\ u.key = "priority" -> [fm EXCEPT !.priority = u.val]
      [] u.op = "clearRule" -> [fm EXCEPT !.rule = "none", !.recurrence = "none"]
      [] u.op = "addTag" -> [fm EXCEPT !.tags = TRUE]
      [] u.op = "removeTag" -> [fm EXCEPT !.tags = FALSE]
      [] u.op = "setRecurrence" -> [fm EXCEPT !.rule = u.val, !.recurrence = "none"]
      [] u.op = "setScheduled" -> [fm EXCEPT !.scheduled = u.num]
      [] u.op = "scheduledDetails" -> [fm EXCEPT !.scheduled = u.num, !.allDay = u.flag]
      [] u.op = "newInstance" -> [fm EXCEPT !.title = u.key, !.status = u.val]
      [] OTHER -> fm

\* the callbacks handed to processFrontMatter
ApplyUpd(u, fm) ==
    CASE u.op = "set" /\ u.key = "status" -> [fm EXCEPT !.status = u.val]
      [] u.op = "set" /\ u.key = "priority" -> [fm EXCEPT !.priority = u.val]
      [] u.op = "clearRule" -> [fm EXCEPT !.rule = "none", !.recurrence = "none"]
      [] u.op = "addTag" -> [fm EXCEPT !.tags = TRUE]
      [] u.op = "removeTag" -> [fm EXCEPT !.tags = FALSE]
      [] u.op = "setRecurrence" -> [fm EXCEPT !.rule = u.val, !.recurrence = "none"]
      [] u.op = "setScheduled" -> [fm EXCEPT !.scheduled = u.num]
      [] u.op = "scheduledDetails" -> [fm EXCEPT !.scheduled = u.num, !.allDay = u.flag]
      [] u.op = "newInstance" -> [fm EXCEPT !.scheduled = u.num, !.title = u.key, !.status = u.val]
      [] OTHER -> fm

\* ---------------------------------------------------------- call frames
\* One frame per active call: fn is the function, pc the point it has
\* reached, the other fields its parameters and locals.
Fr(fn, pc) == [fn |-> fn, pc |-> pc, files |-> <<>>, i |-> 1, file |-> NoPath,
               fm |-> NoFile, upd |-> NoUpd, n |-> 0, r |-> "none", rn |-> 0,
               np |-> NoPath, nd |-> 0, ct |-> NoFile, exists |-> FALSE, made |-> FALSE]

\* what a task has done so far (history, not program state)
NoSplit == [on |-> FALSE, file |-> NoPath, pre |-> NoFile]

NoHist == [applied |-> {}, flowed |-> {}, consulted |-> {}, cancelled |-> FALSE, due |-> {},
           cn |-> <<>>, split |-> NoSplit, failed |-> {}]

\* the machine the synchronous code runs on: the stack of the running task,
\* the tracker, the timers it has set, its outcome once it has returned, and
\* the vault as the completed I/O step left it (dk, read by the history only)
Machine(st, tr, g, dk) == [st |-> st, tr |-> tr, tm |-> {}, r |-> "none", rn |-> 0,
                           done |-> FALSE, rej |-> FALSE, g |-> g, dk |-> dk]

Top(m) == m.st[Len(m.st)]
SetTop(m, f) == [m EXCEPT !.st[Len(m.st)] = f]
Goto(m, pc) == [m EXCEPT !.st[Len(m.st)].pc = pc]
Call(m, cont, f) == [Goto(m, cont) EXCEPT !.st = Append(@, f)]

\* return r / rn to the caller, or end the task
Ret(m, r, rn) ==
    IF Len(m.st) = 1
    THEN [m EXCEPT !.st = <<>>, !.r = r, !.rn = rn, !.done = TRUE]
    ELSE LET s == SubSeq(m.st, 1, Len(m.st) - 1)
         IN  [m EXCEPT !.st = [s EXCEPT ![Len(s)].r = r, ![Len(s)].rn = rn]]

\* a rejected promise: unwinds to the nearest try/catch (applyToFiles around
\* one file, createNextRecurrenceInstance around its body); with none the
\* task's promise rejects
\* history: one record per finished call of createNextRecurrenceInstance, made
\* from its frame f as it returns r: the source, its rule, the date and path
\* derived, whether the path existed, whether the call created the file, the
\* point the call had reached, and whether the source still has a rule
Returned(m, f, r) ==
    [m EXCEPT !.g.cn = Append(@, [file |-> f.file, rule |-> RuleOf(f.fm), nd |-> f.nd,
                                  np |-> f.np, existed |-> f.exists, made |-> f.made,
                                  r |-> r, at |-> f.pc,
                                  ruled |-> HasRule(m.dk[f.file])])]

RECURSIVE Throw(_)
Throw(m) ==
    IF m.st = <<>> THEN [m EXCEPT !.done = TRUE, !.rej = TRUE, !.r = "rejected"]
    ELSE LET f == Top(m)
         IN  IF f.fn = "applyToFiles" /\ f.pc = "pfm"
             THEN SetTop(m, [f EXCEPT !.i = @ + 1, !.pc = "loop"])
             ELSE IF f.fn = "createNextRecurrenceInstance"
             THEN Ret(Returned(m, f, "false"), "false", 0)
             ELSE Throw([m EXCEPT !.st = SubSeq(@, 1, Len(@) - 1)])

\* the points at which a task waits for the vault or for the user
AwaitPcs == {"pfm", "exists", "read", "create", "patchNew", "prompt", "scan",
             "checklist", "modify", "dismissed"}

\* ------------------------------------------------- BulkEditService (sync)
\* applyToFiles that marks no file
applyToFilesUnmarked(m) ==
    LET f == Top(m)
    IN  IF f.i > Len(f.files) THEN Ret(m, "count", f.n)
        ELSE IF ~IsMd(f.files[f.i]) THEN SetTop(m, [f EXCEPT !.i = @ + 1])
        ELSE Goto(m, "pfm")

\* applyToFiles that counts the files it skips
applyToFilesCountingSkipped(m) ==
    LET f == Top(m)
    IN  IF f.i > Len(f.files) THEN Ret(m, "count", f.n)
        ELSE IF ~IsMd(f.files[f.i]) THEN SetTop(m, [f EXCEPT !.i = @ + 1, !.n = @ + 1])
        ELSE [Goto(m, "pfm") EXCEPT !.tr = markAsModified(m.tr, f.files[f.i])]

applyToFiles(m) ==
    LET f == Top(m)
    IN  IF f.i > Len(f.files) THEN Ret(m, "count", f.n)
        ELSE IF ~IsMd(f.files[f.i]) THEN SetTop(m, [f EXCEPT !.i = @ + 1])
        ELSE [Goto(m, "pfm") EXCEPT !.tr = markAsModified(m.tr, f.files[f.i])]

clearRecurrenceRuleFrame(file) == [Fr("clearRecurrenceRule", "pfm") EXCEPT !.file = file]

applyToFilesFrame(files, upd) ==
    [Fr("applyToFiles", "loop") EXCEPT !.files = files, !.upd = upd]

updateFrontmatterFrame(files, upd) ==
    [Fr("updateFrontmatter", "start") EXCEPT !.files = files, !.upd = upd]

createNextFrame(file, fm) ==
    [Fr("createNextRecurrenceInstance", "start") EXCEPT !.file = file, !.fm = fm]

promptFrame(file) == [Fr("promptForFrontmatterChange", "start") EXCEPT !.file = file]

splitInstanceFrame(file) == [Fr("splitInstance", "start") EXCEPT !.file = file]

Consult(m, file) == [m EXCEPT !.g.consulted = @ \cup {file}]
Flow(m, file) == [m EXCEPT !.g.flowed = @ \cup {file}]

\* updateFrontmatter without the return on cancel
updateFrontmatterPastCancel(m) ==
    LET f == Top(m)
    IN  CASE f.pc = "start" ->
               IF settings.enableRecurrence /\ settings.promptOnRecurrenceEdit
               THEN Goto(m, "ploop") ELSE Goto(m, "apply")
          [] f.pc = "ploop" ->
               IF f.i > Len(f.files) THEN Goto(m, "apply")
               ELSE LET fm == cache[f.files[f.i]]
                    IN  IF HasRule(fm) /\ ~HardTerminal(fm)
                           /\ ~(f.upd.op = "set" /\ f.upd.key = "status")
                        THEN Call(Consult(m, f.files[f.i]), "pret", promptFrame(f.files[f.i]))
                        ELSE SetTop(m, [f EXCEPT !.i = @ + 1])
          [] f.pc = "pret" ->
               SetTop([m EXCEPT !.g.cancelled = @ \/ (f.r = "cancel" /\ Len(m.st) = 1)],
                      [f EXCEPT !.i = @ + 1, !.pc = "ploop"])
          [] f.pc = "apply" -> Call(m, "aret", applyToFilesFrame(f.files, f.upd))
          [] f.pc = "aret" -> Ret(m, "count", f.rn)

updateFrontmatter(m) ==
    LET f == Top(m)
    IN  CASE f.pc = "start" ->
               IF settings.enableRecurrence /\ settings.promptOnRecurrenceEdit
               THEN Goto(m, "ploop") ELSE Goto(m, "apply")
          [] f.pc = "ploop" ->
               IF f.i > Len(f.files) THEN Goto(m, "apply")
               ELSE LET fm == cache[f.files[f.i]]
                    IN  IF HasRule(fm) /\ ~HardTerminal(fm)
                           /\ ~(f.upd.op = "set" /\ f.upd.key = "status")
                        THEN Call(Consult(m, f.files[f.i]), "pret", promptFrame(f.files[f.i]))
                        ELSE SetTop(m, [f EXCEPT !.i = @ + 1])
          [] f.pc = "pret" ->
               IF f.r = "cancel"
               THEN Ret([m EXCEPT !.g.cancelled = @ \/ Len(m.st) = 1], "count", 0)
               ELSE SetTop(m, [f EXCEPT !.i = @ + 1, !.pc = "ploop"])
          [] f.pc = "apply" -> Call(m, "aret", applyToFilesFrame(f.files, f.upd))
          [] f.pc = "aret" -> Ret(m, "count", f.rn)

setStatus(m) ==
    LET f == Top(m)
    IN  CASE f.pc = "start" ->
               IF settings.checkOpenChecklistItems /\ f.upd.val = "complete"
                  /\ Len(f.files) = 1
               THEN Goto(m, "scan") ELSE Goto(m, "rstart")
          [] f.pc = "rstart" ->
               IF settings.enableRecurrence /\ f.upd.val \in recurrenceStatuses
               THEN Goto(m, "rloop") ELSE Goto(m, "final")
          [] f.pc = "rloop" ->
               IF f.i > Len(f.files) THEN Goto(m, "final")
               ELSE LET fm == cache[f.files[f.i]]
                    IN  IF HasRule(fm)
                        THEN Call(Flow(m, f.files[f.i]), "cret", createNextFrame(f.files[f.i], fm))
                        ELSE SetTop(m, [f EXCEPT !.i = @ + 1])
          [] f.pc = "cret" ->
               IF f.r = "false"
               THEN Call(m, "clret", clearRecurrenceRuleFrame(f.files[f.i]))
               ELSE SetTop(m, [f EXCEPT !.i = @ + 1, !.pc = "rloop"])
          [] f.pc = "clret" -> SetTop(m, [f EXCEPT !.i = @ + 1, !.pc = "rloop"])
          [] f.pc = "final" -> Call(m, "uret", updateFrontmatterFrame(f.files, f.upd))
          [] f.pc = "uret" -> Ret(m, "count", f.rn)

\* addTag and removeTag share their control flow
addTag(m) ==
    LET f == Top(m)
    IN  CASE f.pc = "start" ->
               IF settings.enableRecurrence /\ settings.promptOnRecurrenceEdit
               THEN Goto(m, "ploop") ELSE Goto(m, "apply")
          [] f.pc = "ploop" ->
               IF f.i > Len(f.files) THEN Goto(m, "apply")
               ELSE LET fm == cache[f.files[f.i]]
                    IN  IF HasRule(fm) /\ ~HardTerminal(fm)
                        THEN Call(Consult(m, f.files[f.i]), "pret", promptFrame(f.files[f.i]))
                        ELSE SetTop(m, [f EXCEPT !.i = @ + 1])
          [] f.pc = "pret" ->
               IF f.r = "cancel"
               THEN Ret([m EXCEPT !.g.cancelled = @ \/ Len(m.st) = 1], "count", 0)
               ELSE Goto(m, "apply")
          [] f.pc = "apply" -> Call(m, "aret", applyToFilesFrame(f.files, f.upd))
          [] f.pc = "aret" -> Ret(m, "count", f.rn)

setRecurrence(m) ==
    LET f == Top(m)
    IN  CASE f.pc = "start" -> Call(m, "aret", applyToFilesFrame(f.files, f.upd))
          [] f.pc = "aret" ->
               IF f.upd.val # "none" /\ settings.enableRecurrence
               THEN Ret([m EXCEPT !.tm = {f.files[k] : k \in 1..Len(f.files)}], "count", f.rn)
               ELSE Ret(m, "count", f.rn)

\* the callback setRecurrence hands to setTimeout
setRecurrenceTimer(m) ==
    LET f == Top(m)
    IN  CASE f.pc = "start" ->
               LET fm == cache[f.file]
               IN  IF fm.ex /\ fm.status \in recurrenceStatuses
                   THEN Call(Flow(m, f.file), "cret", createNextFrame(f.file, fm))
                   ELSE Ret(m, "void", 0)
          [] f.pc = "cret" -> Ret(m, "void", 0)

\* createNextRecurrenceInstance that reports a taken path as handled and
\* leaves the rule
createNextKeepingRule(m) ==
    LET f == Top(m)
        recurrenceRule == RuleOf(f.fm)
        nextDate == getNextOccurrence(recurrenceRule, f.fm.scheduled)
    IN  CASE f.pc = "start" ->
               IF recurrenceRule = "none" THEN Ret(Returned(m, f, "false"), "false", 0)
               ELSE IF nextDate = 0
               THEN Call(m, "true", clearRecurrenceRuleFrame(f.file))
               ELSE SetTop(m, [f EXCEPT !.nd = nextDate,
                                        !.np = newFilePath(f.file, nextDate),
                                        !.pc = "exists"])
          [] f.pc = "existsDone" ->
               IF f.exists
               THEN Ret(Returned(m, f, "true"), "true", 0)
               ELSE Goto(m, "read")
          [] f.pc = "patched" -> Call(m, "true", clearRecurrenceRuleFrame(f.file))
          [] f.pc = "true" -> Ret(Returned(m, f, "true"), "true", 0)

\* createNextRecurrenceInstance that leaves the source as it is once the new
\* instance is patched
createNextLeavingSource(m) ==
    LET f == Top(m)
        recurrenceRule == RuleOf(f.fm)
        nextDate == getNextOccurrence(recurrenceRule, f.fm.scheduled)
    IN  CASE f.pc = "start" ->
               IF recurrenceRule = "none" THEN Ret(Returned(m, f, "false"), "false", 0)
               ELSE IF nextDate = 0
               THEN Call(m, "true", clearRecurrenceRuleFrame(f.file))
               ELSE SetTop(m, [f EXCEPT !.nd = nextDate,
                                        !.np = newFilePath(f.file, nextDate),
                                        !.pc = "exists"])
          [] f.pc = "existsDone" ->
               IF f.exists
               THEN Call(m, "true", clearRecurrenceRuleFrame(f.file))
               ELSE Goto(m, "read")
          [] f.pc = "patched" -> Ret(Returned(m, f, "true"), "true", 0)
          [] f.pc = "true" -> Ret(Returned(m, f, "true"), "true", 0)

createNextRecurrenceInstance(m) ==
    LET f == Top(m)
        recurrenceRule == RuleOf(f.fm)
        nextDate == getNextOccurrence(recurrenceRule, f.fm.scheduled)
    IN  CASE f.pc = "start" ->
               IF recurrenceRule = "none" THEN Ret(Returned(m, f, "false"), "false", 0)
               ELSE IF nextDate = 0
               THEN Call(m, "true", clearRecurrenceRuleFrame(f.file))
               ELSE SetTop(m, [f EXCEPT !.nd = nextDate,
                                        !.np = newFilePath(f.file, nextDate),
                                        !.pc = "exists"])
          [] f.pc = "existsDone" ->
               IF f.exists
               THEN Call(m, "true", clearRecurrenceRuleFrame(f.file))
               ELSE Goto(m, "read")
          [] f.pc = "patched" -> Call(m, "true", clearRecurrenceRuleFrame(f.file))
          [] f.pc = "true" -> Ret(Returned(m, f, "true"), "true", 0)

\* checkMissingRecurrences that runs the successor flow for every note with a
\* rule, whatever its status
checkMissingRecurrencesAnyStatus(m) ==
    LET f == Top(m)
    IN  CASE f.pc = "start" ->
               IF ~settings.enableRecurrence THEN Ret(m, "void", 0)
               ELSE Goto(m, "loop")
          [] f.pc = "loop" ->
               IF f.i > Len(f.files) THEN Ret(m, "void", f.n)
               ELSE LET fm == cache[f.files[f.i]]
                    IN  IF fm.ex /\ HasRule(fm)
                        THEN Call(Flow(m, f.files[f.i]), "cret", createNextFrame(f.files[f.i], fm))
                        ELSE SetTop(m, [f EXCEPT !.i = @ + 1])
          [] f.pc = "cret" ->
               SetTop(m, [f EXCEPT !.n = IF f.r = "true" THEN @ + 1 ELSE @,
                                   !.i = @ + 1, !.pc = "loop"])

checkMissingRecurrences(m) ==
    LET f == Top(m)
    IN  CASE f.pc = "start" ->
               IF ~settings.enableRecurrence THEN Ret(m, "void", 0)
               ELSE Goto(m, "loop")
          [] f.pc = "loop" ->
               IF f.i > Len(f.files) THEN Ret(m, "void", f.n)
               ELSE LET fm == cache[f.files[f.i]]
                    IN  IF fm.ex /\ HasRule(fm) /\ fm.status \in recurrenceStatuses
                        THEN Call(Flow(m, f.files[f.i]), "cret", createNextFrame(f.files[f.i], fm))
                        ELSE SetTop(m, [f EXCEPT !.i = @ + 1])
          [] f.pc = "cret" ->
               SetTop(m, [f EXCEPT !.n = IF f.r = "true" THEN @ + 1 ELSE @,
                                   !.i = @ + 1, !.pc = "loop"])

\* ------------------------------------------------ RecurrenceService (sync)
\* promptForFrontmatterChange that reports a split to its caller as a cancel
promptForFrontmatterChangeSplitCancels(m) ==
    LET f == Top(m)
        w == wasRecentlyModified(m.tr, f.file)
    IN  CASE f.pc = "start" ->
               IF w.res THEN Ret([m EXCEPT !.tr = w.tr], "update-all", 0)
               ELSE Goto([m EXCEPT !.tr = w.tr], "prompt")
          [] f.pc = "decided" ->
               IF f.r = "update-all"
               THEN Ret([m EXCEPT !.tr = markAsModified(m.tr, f.file)], "update-all", 0)
               ELSE IF f.r = "split"
               THEN Call(m, "sret", splitInstanceFrame(f.file))
               ELSE Ret(m, "cancel", 0)
          [] f.pc = "sret" ->
               Ret([m EXCEPT !.tr = markAsModified(m.tr, f.file)], "cancel", 0)

promptForFrontmatterChange(m) ==
    LET f == Top(m)
        w == wasRecentlyModified(m.tr, f.file)
    IN  CASE f.pc = "start" ->
               IF w.res THEN Ret([m EXCEPT !.tr = w.tr], "update-all", 0)
               ELSE Goto([m EXCEPT !.tr = w.tr], "prompt")
          [] f.pc = "decided" ->
               IF f.r = "update-all"
               THEN Ret([m EXCEPT !.tr = markAsModified(m.tr, f.file)], "update-all", 0)
               ELSE IF f.r = "split"
               THEN Call(m, "sret", splitInstanceFrame(f.file))
               ELSE Ret(m, "cancel", 0)
          [] f.pc = "sret" ->
               Ret([m EXCEPT !.tr = markAsModified(m.tr, f.file)], "split", 0)

splitInstance(m) ==
    LET f == Top(m)
        fm == cache[f.file]
    IN  CASE f.pc = "start" ->
               IF ~fm.ex THEN Ret(m, "void", 0)
               ELSE Call(Flow(m, f.file), "cret", createNextFrame(f.file, fm))
          [] f.pc = "cret" ->
               Call(m, "uret", updateFrontmatterFrame(<<f.file>>,
                        [NoUpd EXCEPT !.op = "clearRule", !.key = "recurrenceRule"]))
          [] f.pc = "uret" -> Ret(m, "void", 0)

\* handleFileFocus that marks the note as it opens the prompt
handleFileFocusMarkingFirst(m) ==
    LET f == Top(m)
        w == wasRecentlyModified(m.tr, f.file)
        fm == cache[f.file]
    IN  CASE f.pc = "start" ->
               IF w.res THEN Ret([m EXCEPT !.tr = w.tr], "void", 0)
               ELSE IF ~HasRule(fm) \/ HardTerminal(fm)
               THEN Ret([m EXCEPT !.tr = w.tr], "void", 0)
               ELSE Goto([m EXCEPT !.tr = markAsModified(w.tr, f.file)], "prompt")
          [] f.pc = "decided" ->
               IF f.r = "split"
               THEN Call(m, "sret", splitInstanceFrame(f.file))
               ELSE Ret([m EXCEPT !.tr = markAsModified(m.tr, f.file)], f.r, 0)
          [] f.pc = "sret" ->
               Ret([m EXCEPT !.tr = markAsModified(m.tr, f.file)], "split", 0)

\* handleFileFocus whose "update-all" answer leaves the note unmarked
handleFileFocusUnmarked(m) ==
    LET f == Top(m)
        w == wasRecentlyModified(m.tr, f.file)
        fm == cache[f.file]
    IN  CASE f.pc = "start" ->
               IF w.res THEN Ret([m EXCEPT !.tr = w.tr], "void", 0)
               ELSE IF ~HasRule(fm) \/ HardTerminal(fm)
               THEN Ret([m EXCEPT !.tr = w.tr], "void", 0)
               ELSE Goto([m EXCEPT !.tr = w.tr], "prompt")
          [] f.pc = "decided" ->
               IF f.r = "split"
               THEN Call(m, "sret", splitInstanceFrame(f.file))
               ELSE IF f.r = "update-all" THEN Ret(m, f.r, 0)
               ELSE Ret([m EXCEPT !.tr = markAsModified(m.tr, f.file)], f.r, 0)
          [] f.pc = "sret" ->
               Ret([m EXCEPT !.tr = markAsModified(m.tr, f.file)], "split", 0)

\* handleFileFocus with promptOnFocus, and handleFileModification with
\* promptForContentChange: every answer ends with the note marked
handleFileFocus(m) ==
    LET f == Top(m)
        w == wasRecentlyModified(m.tr, f.file)
        fm == cache[f.file]
    IN  CASE f.pc = "start" ->
               IF w.res THEN Ret([m EXCEPT !.tr = w.tr], "void", 0)
               ELSE IF ~HasRule(fm) \/ HardTerminal(fm)
               THEN Ret([m EXCEPT !.tr = w.tr], "void", 0)
               ELSE Goto([m EXCEPT !.tr = w.tr], "prompt")
          [] f.pc = "decided" ->
               IF f.r = "split"
               THEN Call(m, "sret", splitInstanceFrame(f.file))
               ELSE Ret([m EXCEPT !.tr = markAsModified(m.tr, f.file)], f.r, 0)
          [] f.pc = "sret" ->
               Ret([m EXCEPT !.tr = markAsModified(m.tr, f.file)], "split", 0)

handleFileModification(m) == handleFileFocus(m)

\* ----------------------------------------------------------- interpreter
Step(m) ==
    LET fn == Top(m).fn
    IN  CASE fn = "applyToFiles" -> applyToFiles(m)
          [] fn = "updateFrontmatter" -> updateFrontmatter(m)
          [] fn = "setStatus" -> setStatus(m)
          [] fn = "addTag" -> addTag(m)
          [] fn = "setRecurrence" -> setRecurrence(m)
          [] fn = "setRecurrenceTimer" -> setRecurrenceTimer(m)
          [] fn = "createNextRecurrenceInstance" -> createNextRecurrenceInstance(m)
          [] fn = "checkMissingRecurrences" -> checkMissingRecurrences(m)
          [] fn = "promptForFrontmatterChange" -> promptForFrontmatterChange(m)
          [] fn = "splitInstance" -> splitInstance(m)
          [] fn = "handleFileFocus" -> handleFileFocus(m)
          [] fn = "handleFileModification" -> handleFileModification(m)

\* run the synchronous code up to the next await or to the task's end (the
\* machine is bound once, as v, so that it is evaluated once per step)
RECURSIVE Run(_)
Run(m) ==
    CHOOSE r \in {IF v.done \/ v.st = <<>> \/ Top(v).pc \in AwaitPcs THEN v
                  ELSE Run(Step(v)) : v \in {m}} : TRUE

\* ------------------------------------------------------------------ tasks
NoLast == [fn |-> "none", files |-> <<>>, upd |-> NoUpd, r |-> "none", rn |-> 0,
           rej |-> FALSE, g |-> NoHist]

\* what a finished task reported: its entry point, arguments and result
Outcome(top, m) == [fn |-> top.fn, files |-> top.files, upd |-> top.upd,
                    r |-> m.r, rn |-> m.rn, rej |-> m.rej, g |-> m.g]

TaskOf(top, m) == [top |-> top, st |-> m.st, g |-> m.g]

Without(s, t) == SubSeq(s, 1, t - 1) \o SubSeq(s, t + 1, Len(s))

TopFrame(t) == tasks[t].st[Len(tasks[t].st)]

MachineOf(t, f, tr, dk) ==
    Machine([tasks[t].st EXCEPT ![Len(tasks[t].st)] = f], tr, tasks[t].g, dk)

\* settings.recurrenceDefaultStatus || 'open'
newStatus == IF settings.recurrenceDefaultStatus = "none" THEN "open"
             ELSE settings.recurrenceDefaultStatus

\* vault.getMarkdownFiles(), in path order
Rank(p) == (IF p[1] = "A" THEN 0 ELSE 1) * (MaxDate + 1) + p[2]

RECURSIVE SeqOf(_)
SeqOf(S) == IF S = {} THEN <<>>
            ELSE LET p == CHOOSE x \in S : \A y \in S : Rank(x) <= Rank(y)
                 IN  <<p>> \o SeqOf(S \ {p})

getMarkdownFiles == SeqOf({p \in Paths : disk[p].ex /\ IsMd(p)})

\* the file lists a command can be given: any one note, or several of the
\* undated notes in any order
Existing == {p \in Paths : disk[p].ex}

Batches == {<<p>> : p \in Existing}
           \cup {s \in UNION {[1..n -> {p \in Existing : p[2] = 0}] : n \in 2..MaxBatch} :
                   \A i, j \in DOMAIN s : i # j => s[i] # s[j]}

\* the vault's 'modify' event reaches RecurrenceService's listener while the
\* write completes: the listener's synchronous part runs before the writer
\* continues.  Result: the tracker after it and the prompt task it opened.
ModifyEvent(p, changed, tr, dk) ==
    LET top == [fn |-> "handleFileModification", files |-> <<p>>, upd |-> NoUpd]
        m == Run(Machine(<<[Fr("handleFileModification", "start") EXCEPT !.file = p]>>,
                         tr, NoHist, dk))
    IN  IF changed /\ IsMd(p)
        THEN [tr |-> m.tr, spawned |-> IF m.done THEN <<>> ELSE <<TaskOf(top, m)>>]
        ELSE [tr |-> tr, spawned |-> <<>>]

ScanAfter(fn, done) ==
    IF fn = "checkMissingRecurrences" THEN (IF done THEN "done" ELSE "running") ELSE scan

\* task t goes on from machine m; spawned are the tasks its step has started
Resume(t, m, spawned) ==
    /\ tasks' = (IF m.done THEN Without(tasks, t)
                 ELSE [tasks EXCEPT ![t] = TaskOf(tasks[t].top, m)]) \o spawned
    /\ Len(tasks') <= MaxTasks
    /\ Len(m.st) <= MaxDepth
    /\ tracker' = m.tr
    /\ timers' = timers \cup m.tm
    /\ last' = IF m.done THEN Outcome(tasks[t].top, m) ELSE NoLast
    /\ scan' = ScanAfter(tasks[t].top.fn, m.done)

\* the prompts the 'modify' listener has opened, counted up to MaxPrompts
Opened(spawned) ==
    /\ prompts + Len(spawned) <= MaxPrompts
    /\ prompts' = prompts + Len(spawned)

\* the notes of a batch the orchestrator is owed a look at when the call is
\* made: rule-bearing and not terminal (in the vault and in the index alike),
\* and not inside the suppression window
Due(files) ==
    {p \in {files[k] : k \in 1..Len(files)} :
        /\ IsMd(p)
        /\ HasRule(disk[p]) /\ ~HardTerminal(disk[p]) /\ disk[p].status \notin recurrenceStatuses
        /\ cache[p] = disk[p]
        /\ ~wasRecentlyModified(tracker, p).res}

\* a new task is started with this frame
Launch(top, frame, tm) ==
    LET m == Run(Machine(<<frame>>, tracker, [NoHist EXCEPT !.due = Due(top.files)], disk))
    IN  /\ Len(tasks) < MaxTasks
        /\ Len(m.st) <= MaxDepth
        /\ tasks' = IF m.done THEN tasks ELSE Append(tasks, TaskOf(top, m))
        /\ tracker' = m.tr
        /\ timers' = tm \cup m.tm
        /\ last' = IF m.done THEN Outcome(top, m) ELSE NoLast
        /\ scan' = ScanAfter(top.fn, m.done)

\* a command of the user, or an event the user causes
Command(top, frame) ==
    /\ ops < MaxOps
    /\ ops' = ops + 1
    /\ Launch(top, frame, timers)
    /\ UNCHANGED <<disk, cache, sessionDuration, now, settings, prompts, series>>

\* --------------------------------------------------- vault and user steps
\* the write a task awaits in processFrontMatter
PfmPath(f) == IF f.fn = "applyToFiles" THEN f.files[f.i]
              ELSE IF f.fn = "clearRecurrenceRule" THEN f.file
              ELSE f.np

PfmUpd(f) == IF f.fn = "applyToFiles" THEN f.upd
             ELSE IF f.fn = "clearRecurrenceRule"
             THEN [NoUpd EXCEPT !.op = "clearRule", !.key = "recurrenceRule"]
             ELSE [NoUpd EXCEPT !.op = "newInstance", !.num = f.nd,
                                !.key = baseName(f.file), !.val = newStatus]

AwaitsPfm(f) == \/ f.fn \in {"applyToFiles", "clearRecurrenceRule"} /\ f.pc = "pfm"
                \/ f.fn = "createNextRecurrenceInstance" /\ f.pc = "patchNew"

ProcessFrontMatterOk(t) ==
    LET f == TopFrame(t)
        p == PfmPath(f)
        after == ApplyUpd(PfmUpd(f), disk[p])
        dk == [disk EXCEPT ![p] = after]
        ev == ModifyEvent(p, after # disk[p], tracker, dk)
        g1 == IF f.fn = "applyToFiles" /\ f.upd = tasks[t].top.upd
              THEN [tasks[t].g EXCEPT !.applied = @ \cup {p}] ELSE tasks[t].g
        m0 == [MachineOf(t, f, ev.tr, dk) EXCEPT !.g = g1]
        m1 == IF f.fn = "applyToFiles"
              THEN SetTop(m0, [f EXCEPT !.n = @ + 1, !.i = @ + 1, !.pc = "loop"])
              ELSE IF f.fn = "clearRecurrenceRule" THEN Ret(m0, "void", 0)
              ELSE Goto(m0, "patched")
    IN  /\ AwaitsPfm(f)
        /\ disk[p].ex
        /\ disk' = dk
        /\ Resume(t, Run(m1), ev.spawned)
        /\ Opened(ev.spawned)
        /\ UNCHANGED <<cache, sessionDuration, now, settings, ops, series>>

ProcessFrontMatterFail(t) ==
    LET f == TopFrame(t)
        g1 == IF f.fn = "applyToFiles" /\ f.upd = tasks[t].top.upd
              THEN [tasks[t].g EXCEPT !.failed = @ \cup {PfmPath(f)}] ELSE tasks[t].g
    IN  /\ AwaitsPfm(f)
        /\ Resume(t, Run(Throw([MachineOf(t, f, tracker, disk) EXCEPT !.g = g1])), <<>>)
        /\ UNCHANGED <<disk, cache, sessionDuration, now, settings, ops, prompts, series>>

\* vault.adapter.exists(newFilePath)
ExistsDone(t) ==
    LET f == TopFrame(t)
    IN  /\ f.fn = "createNextRecurrenceInstance" /\ f.pc = "exists"
        /\ f.nd <= MaxDate
        /\ Resume(t, Run(MachineOf(t, [f EXCEPT !.exists = disk[f.np].ex,
                                                !.pc = "existsDone"], tracker, disk)), <<>>)
        /\ UNCHANGED <<disk, cache, sessionDuration, now, settings, ops, prompts, series>>

\* vault.read(file): the content for the new instance
ReadOk(t) ==
    LET f == TopFrame(t)
    IN  /\ f.fn = "createNextRecurrenceInstance" /\ f.pc = "read" /\ disk[f.file].ex
        /\ Resume(t, Run(MachineOf(t, [f EXCEPT !.ct = disk[f.file], !.pc = "create"],
                                   tracker, disk)), <<>>)
        /\ UNCHANGED <<disk, cache, sessionDuration, now, settings, ops, prompts, series>>

ReadFail(t) ==
    LET f == TopFrame(t)
    IN  /\ f.fn = "createNextRecurrenceInstance" /\ f.pc = "read"
        /\ Resume(t, Run(Throw(MachineOf(t, f, tracker, disk))), <<>>)
        /\ UNCHANGED <<disk, cache, sessionDuration, now, settings, ops, prompts, series>>

\* vault.create(newFilePath, content); the new note joins the source's series
CreateOk(t) ==
    LET f == TopFrame(t)
        dk == [disk EXCEPT ![f.np] = f.ct]
    IN  /\ f.fn = "createNextRecurrenceInstance" /\ f.pc = "create"
        /\ ~disk[f.np].ex
        /\ disk' = dk
        /\ series' = [series EXCEPT ![f.np] = series[f.file]]
        /\ Resume(t, Run(MachineOf(t, [f EXCEPT !.pc = "patchNew", !.made = TRUE],
                                   tracker, dk)), <<>>)
        /\ UNCHANGED <<cache, sessionDuration, now, settings, ops, prompts>>

CreateFail(t) ==
    LET f == TopFrame(t)
    IN  /\ f.fn = "createNextRecurrenceInstance" /\ f.pc = "create"
        /\ Resume(t, Run(Throw(MachineOf(t, f, tracker, disk))), <<>>)
        /\ UNCHANGED <<disk, cache, sessionDuration, now, settings, ops, prompts, series>>

\* vault.create on a path that has been taken since the exists check: rejects
CreateExists(t) ==
    LET f == TopFrame(t)
    IN  /\ f.fn = "createNextRecurrenceInstance" /\ f.pc = "create" /\ disk[f.np].ex
        /\ Resume(t, Run(Throw(MachineOf(t, f, tracker, disk))), <<>>)
        /\ UNCHANGED <<disk, cache, sessionDuration, now, settings, ops, prompts, series>>

\* the user answers a RecurrenceUpdateModal
PromptChoose(t, c) ==
    LET f == TopFrame(t)
        m == MachineOf(t, [f EXCEPT !.r = c, !.pc = "decided"], tracker, disk)
        g == IF c = "split" /\ ~m.g.split.on
             THEN [m.g EXCEPT !.split = [on |-> TRUE, file |-> f.file, pre |-> disk[f.file]]]
             ELSE m.g
    IN  /\ f.pc = "prompt"
        /\ Resume(t, Run([m EXCEPT !.g = g]), <<>>)
        /\ UNCHANGED <<disk, cache, sessionDuration, now, settings, ops, prompts, series>>

\* the user closes a RecurrenceUpdateModal without picking an option (Esc, the
\* close button, a click outside): Modal.close runs onClose, which empties
\* the dialog and does not call resolve, so the promise stays pending
PromptDismiss(t) ==
    /\ TopFrame(t).pc = "prompt"
    /\ tasks' = [tasks EXCEPT ![t].st[Len(tasks[t].st)].pc = "dismissed"]
    /\ last' = NoLast
    /\ UNCHANGED <<disk, cache, tracker, sessionDuration, now, settings, timers, ops, prompts, scan, series>>

\* scanChecklistItems: vault.read and the search for "- [ ]" lines
ScanOk(t) ==
    LET f == TopFrame(t)
    IN  /\ f.fn = "setStatus" /\ f.pc = "scan" /\ disk[f.files[1]].ex
        /\ Resume(t, Run(MachineOf(t, [f EXCEPT !.pc = IF disk[f.files[1]].todo
                                                      THEN "checklist" ELSE "rstart"],
                                   tracker, disk)), <<>>)
        /\ UNCHANGED <<disk, cache, sessionDuration, now, settings, ops, prompts, series>>

\* the user answers the ChecklistPromptModal of setStatus
ChecklistChoose(t, c) ==
    LET f == TopFrame(t)
        m == MachineOf(t, f, tracker, disk)
    IN  /\ f.fn = "setStatus" /\ f.pc = "checklist"
        /\ Resume(t, Run(IF c \in {"cancel", "open"} THEN Ret(m, "count", 0)
                         ELSE IF c \in {"complete", "progress"} THEN Goto(m, "modify")
                         ELSE Goto(m, "rstart")), <<>>)
        /\ UNCHANGED <<disk, cache, sessionDuration, now, settings, ops, prompts, series>>

\* updateChecklistItems: vault.modify with the open items rewritten
ModifyOk(t) ==
    LET f == TopFrame(t)
        p == f.files[1]
        dk == [disk EXCEPT ![p].todo = FALSE]
        ev == ModifyEvent(p, disk[p].todo, tracker, dk)
    IN  /\ f.fn = "setStatus" /\ f.pc = "modify"
        /\ disk[p].ex
        /\ disk' = dk
        /\ Resume(t, Run(MachineOf(t, [f EXCEPT !.pc = "rstart"], ev.tr, dk)), ev.spawned)
        /\ Opened(ev.spawned)
        /\ UNCHANGED <<cache, sessionDuration, now, settings, ops, series>>

\* a read or write of the checklist flow rejects
ChecklistIoFail(t) ==
    LET f == TopFrame(t)
    IN  /\ f.fn = "setStatus" /\ f.pc \in {"scan", "modify"}
        /\ Resume(t, Run(Throw(MachineOf(t, f, tracker, disk))), <<>>)
        /\ UNCHANGED <<disk, cache, sessionDuration, now, settings, ops, prompts, series>>

\* the metadata index catches up with one file
CacheSync(p) ==
    /\ cache[p] # disk[p]
    /\ cache' = [cache EXCEPT ![p] = disk[p]]
    /\ last' = NoLast
    /\ UNCHANGED <<disk, tracker, sessionDuration, now, settings, tasks, timers, ops, prompts, scan, series>>

Tick ==
    /\ now < MaxTime
    /\ now' = now + 1
    /\ last' = NoLast
    /\ UNCHANGED <<disk, cache, tracker, sessionDuration, settings, tasks, timers, ops, prompts, scan, series>>

\* the Recurrence Prompt Timeout slider: onChange stores the value in the
\* settings and saves them; RecurrenceService.updateSettings is not called
PromptTimeoutChange(d) ==
    /\ d # settings.recurrencePromptTimeout
    /\ settings' = [settings EXCEPT !.recurrencePromptTimeout = d]
    /\ last' = NoLast
    /\ UNCHANGED <<disk, cache, tracker, sessionDuration, now, tasks, timers, ops, prompts, scan, series>>

\* SessionTracker.updateDuration, reached through RecurrenceService.updateSettings
\* only, which has no caller
UpdateDuration(d) ==
    /\ ops < MaxOps
    /\ d # sessionDuration
    /\ sessionDuration' = d
    /\ ops' = ops + 1
    /\ last' = NoLast
    /\ UNCHANGED <<disk, cache, tracker, now, settings, tasks, timers, prompts, scan, series>>

\* ------------------------------------------------------------ entry points
TopOf(fn, files, upd) == [fn |-> fn, files |-> files, upd |-> upd]

SetUpd(key, val) == [NoUpd EXCEPT !.op = "set", !.key = key, !.val = val]

SetStatus(files, status) ==
    LET u == SetUpd("status", status)
    IN  Command(TopOf("setStatus", files, u),
                [Fr("setStatus", "start") EXCEPT !.files = files, !.upd = u])

UpdateFrontmatter(files, key, val) ==
    LET u == SetUpd(key, val)
    IN  Command(TopOf("updateFrontmatter", files, u), updateFrontmatterFrame(files, u))

SetPriority(files, priority) ==
    LET u == SetUpd("priority", priority)
    IN  Command(TopOf("setPriority", files, u), updateFrontmatterFrame(files, u))

AddTag(files) ==
    LET u == [NoUpd EXCEPT !.op = "addTag", !.key = "tags"]
    IN  Command(TopOf("addTag", files, u),
                [Fr("addTag", "start") EXCEPT !.files = files, !.upd = u])

RemoveTag(files) ==
    LET u == [NoUpd EXCEPT !.op = "removeTag", !.key = "tags"]
    IN  Command(TopOf("removeTag", files, u),
                [Fr("addTag", "start") EXCEPT !.files = files, !.upd = u])

SetRecurrence(files, rule) ==
    LET u == [NoUpd EXCEPT !.op = "setRecurrence", !.key = "recurrenceRule", !.val = rule]
    IN  Command(TopOf("setRecurrence", files, u),
                [Fr("setRecurrence", "start") EXCEPT !.files = files, !.upd = u])

SetScheduled(files, date) ==
    LET u == [NoUpd EXCEPT !.op = "setScheduled", !.key = "scheduled", !.num = date]
    IN  Command(TopOf("setScheduled", files, u), applyToFilesFrame(files, u))

UpdateScheduledDetails(files, date, allDay) ==
    LET u == [NoUpd EXCEPT !.op = "scheduledDetails", !.key = "scheduled",
                           !.num = date, !.flag = allDay]
    IN  Command(TopOf("updateScheduledDetails", files, u), applyToFilesFrame(files, u))

\* main.ts onLayoutReady: the scan runs once, after start-up
CheckMissingRecurrences ==
    LET files == IF settings.enableRecurrence THEN getMarkdownFiles ELSE <<>>
    IN  /\ scan = "idle"
        /\ Launch(TopOf("checkMissingRecurrences", files, NoUpd),
                  [Fr("checkMissingRecurrences", "start") EXCEPT !.files = files], timers)
        /\ UNCHANGED <<disk, cache, sessionDuration, now, settings, ops, prompts, series>>

\* workspace 'active-leaf-change' on a markdown file
FocusEvent(p) ==
    /\ disk[p].ex /\ IsMd(p)
    /\ Command(TopOf("handleFileFocus", <<p>>, NoUpd),
               [Fr("handleFileFocus", "start") EXCEPT !.file = p])

\* the user edits the body of a note: vault 'modify'
EditEvent(p) ==
    /\ disk[p].ex /\ IsMd(p)
    /\ Command(TopOf("handleFileModification", <<p>>, NoUpd),
               [Fr("handleFileModification", "start") EXCEPT !.file = p])

\* a timer set by setRecurrence fires
TimerFire(p) ==
    /\ p \in timers
    /\ Launch(TopOf("setRecurrenceTimer", <<p>>, NoUpd),
              [Fr("setRecurrenceTimer", "start") EXCEPT !.file = p], timers \ {p})
    /\ UNCHANGED <<disk, cache, sessionDuration, now, settings, ops, prompts, series>>

\* ------------------------------------------------------------ specifications
DEFAULT_SETTINGS == [enableRecurrence |-> TRUE, promptOnRecurrenceEdit |-> TRUE,
                     recurrenceCompletionStatuses |-> {"complete", "wont-do"},
                     recurrenceDefaultStatus |-> "open",
                     checkOpenChecklistItems |-> TRUE,
                     recurrencePromptTimeout |-> 1]

Note(rule, status, scheduled) ==
    [NoFile EXCEPT !.ex = TRUE, !.rule = rule, !.status = status, !.scheduled = scheduled]

Vault(a, b) == [p \in Paths |-> IF p = <<"A", 0>> THEN a
                                ELSE IF p = <<"B", 0>> THEN b ELSE NoFile]

\* the plugin has loaded over the vault d, the index is up to date; used is
\* the part of the command budget MaxOps that is already spent
LoadedWith(d, used) ==
    /\ disk = d
    /\ cache = d
    /\ tracker = [p \in Paths |-> 0]
    /\ sessionDuration = DEFAULT_SETTINGS.recurrencePromptTimeout
    /\ now = 1
    /\ settings = DEFAULT_SETTINGS
    /\ tasks = <<>>
    /\ timers = {}
    /\ last = NoLast
    /\ ops = used
    /\ prompts = 0
    /\ scan = "idle"
    /\ series = [p \in Paths |-> Rank(p)]

Loaded(d) == LoadedWith(d, 0)

\* one command is left to the user
LoadedForOne(d) == LoadedWith(d, MaxOps - 1)

\* the steps of the vault and of the index that succeed
VaultOk ==
    \/ \E t \in 1..Len(tasks) : ProcessFrontMatterOk(t)
    \/ \E t \in 1..Len(tasks) : ExistsDone(t)
    \/ \E t \in 1..Len(tasks) : ReadOk(t)
    \/ \E t \in 1..Len(tasks) : CreateOk(t)
    \/ \E p \in Paths : CacheSync(p)

\* the steps of the vault and of the index, rejected operations included
VaultStep ==
    \/ \E t \in 1..Len(tasks) : ProcessFrontMatterOk(t)
    \/ \E t \in 1..Len(tasks) : ProcessFrontMatterFail(t)
    \/ \E t \in 1..Len(tasks) : ExistsDone(t)
    \/ \E t \in 1..Len(tasks) : ReadOk(t)
    \/ \E t \in 1..Len(tasks) : ReadFail(t)
    \/ \E t \in 1..Len(tasks) : CreateOk(t)
    \/ \E t \in 1..Len(tasks) : CreateFail(t)
    \/ \E p \in Paths : CacheSync(p)

\* the frontmatter writes that succeed, and the index
PatchOk ==
    \/ \E t \in 1..Len(tasks) : ProcessFrontMatterOk(t)
    \/ \E p \in Paths : CacheSync(p)

\* the frontmatter writes, rejected ones included, and the index
PatchStep ==
    \/ \E t \in 1..Len(tasks) : ProcessFrontMatterOk(t)
    \/ \E t \in 1..Len(tasks) : ProcessFrontMatterFail(t)
    \/ \E p \in Paths : CacheSync(p)

\* start-up scan over a vault holding a completed recurring note
InitHeal ==
    \E ra \in Rules, sb \in {"open", "wont-do"} :
        Loaded(Vault(Note(ra, "complete", 1), Note("daily", sb, 0)))

NextHeal ==
    \/ VaultStep
    \/ CheckMissingRecurrences

SpecHeal == InitHeal /\ [][NextHeal]_vars

\* one status change, from the status submenu (setStatus) or from the status
\* selector of the file menu (updateFrontmatter with the status key)
InitStatus ==
    \E todo \in BOOLEAN, rb \in {"daily", "none"} :
        LoadedForOne(Vault([Note("daily", "open", 1) EXCEPT !.todo = todo], Note(rb, "open", 1)))

TerminalInputs == {"complete", "wont-do"}

NextStatus ==
    \/ VaultStep
    \/ \E t \in 1..Len(tasks), c \in Choices : PromptChoose(t, c)
    \/ \E t \in 1..Len(tasks) : ScanOk(t)
    \/ \E t \in 1..Len(tasks), c \in ChecklistChoices : ChecklistChoose(t, c)
    \/ \E t \in 1..Len(tasks) : ModifyOk(t)
    \/ \E t \in 1..Len(tasks) : ChecklistIoFail(t)
    \/ \E files \in Batches, s \in TerminalInputs : SetStatus(files, s)
    \/ \E files \in Batches, s \in TerminalInputs : UpdateFrontmatter(files, "status", s)

SpecStatus == InitStatus /\ [][NextStatus]_vars

\* menus are opened by hand: a command starts when the previous one is over
Idle == tasks = <<>>

\* two status changes in a row over an index that may lag behind the vault
InitLag == Loaded(Vault(Note("daily", "open", 1), Note("none", "open", 1)))

NextLag ==
    \/ VaultOk
    \/ \E t \in 1..Len(tasks), c \in Choices : PromptChoose(t, c)
    \/ \E t \in 1..Len(tasks) : ScanOk(t)
    \/ Idle /\ \E p \in Existing, s \in TerminalInputs : SetStatus(<<p>>, s)

SpecLag == InitLag /\ [][NextLag]_vars

\* a series after the start-up scan: the note is focused, prompts are answered
\* and recurrence is set from the menu
InitSeries == Loaded(Vault(Note("daily", "open", 1), Note("none", "open", 1)))

NextSeries ==
    \/ VaultStep
    \/ CheckMissingRecurrences
    \/ \E t \in 1..Len(tasks), c \in Choices : PromptChoose(t, c)
    \/ Idle /\ scan = "done" /\ \E p \in Existing : FocusEvent(p)
    \/ Idle /\ scan = "done" /\ \E p \in Existing : SetRecurrence(<<p>>, "daily")
    \/ \E p \in Paths : TimerFire(p)

SpecSeries == InitSeries /\ [][NextSeries]_vars

\* one frontmatter mutation from the menus
InitMutations ==
    \E rb \in {"daily", "none"} :
        LoadedForOne(Vault(Note("daily", "open", 1), Note(rb, "open", 1)))

NextMutations ==
    \/ VaultOk
    \/ \E t \in 1..Len(tasks), c \in Choices : PromptChoose(t, c)
    \/ \E files \in Batches : UpdateFrontmatter(files, "priority", "high")
    \/ \E files \in Batches : SetPriority(files, "high")
    \/ \E files \in Batches : AddTag(files)
    \/ \E files \in Batches : RemoveTag(files)
    \/ \E files \in Batches : SetScheduled(files, 2)
    \/ \E files \in Batches : UpdateScheduledDetails(files, 2, TRUE)

SpecMutations == InitMutations /\ [][NextMutations]_vars

\* one frontmatter mutation that prompts, and the answers to its prompts
InitCancel ==
    \E rb \in {"daily", "none"} :
        LoadedForOne(Vault(Note("daily", "open", 1), Note(rb, "open", 1)))

NextCancel ==
    \/ VaultOk
    \/ \E t \in 1..Len(tasks), c \in Choices : PromptChoose(t, c)
    \/ \E files \in Batches : UpdateFrontmatter(files, "priority", "high")
    \/ \E files \in Batches : SetPriority(files, "high")
    \/ \E files \in Batches : AddTag(files)
    \/ \E files \in Batches : RemoveTag(files)

SpecCancel == InitCancel /\ [][NextCancel]_vars

\* vault d with note c at path p
With(d, p, c) == [d EXCEPT ![p] = c]

\* one trigger on a recurring note (focus, content edit or a field change from
\* the menu) and the answers to its prompts; the note "A 2" that a successor
\* of A would be written to may be there already
InitSplit ==
    \E ra \in Rules, there \in BOOLEAN :
        LET d == Vault(Note(ra, "open", 1), Note("none", "open", 1))
        IN  LoadedForOne(IF there THEN With(d, <<"A", 2>>, Note("none", "done", 3)) ELSE d)

NextSplit ==
    \/ VaultOk
    \/ \E t \in 1..Len(tasks), c \in Choices : PromptChoose(t, c)
    \/ \E p \in Existing : FocusEvent(p)
    \/ \E p \in Existing : EditEvent(p)
    \/ \E p \in Existing : UpdateFrontmatter(<<p>>, "priority", "high")

SpecSplit == InitSplit /\ [][NextSplit]_vars

\* the start-up scan over a completed recurring note whose successor path
\* may be taken, then the same note set to a terminal status once more
InitRepeat ==
    \E ra \in Rules, there \in BOOLEAN :
        LET d == Vault(Note(ra, "complete", 1), Note("none", "open", 1))
        IN  LoadedForOne(IF there THEN With(d, <<"A", 2>>, Note("none", "done", 3)) ELSE d)

NextRepeat ==
    \/ VaultStep
    \/ CheckMissingRecurrences
    \/ Idle /\ scan = "done" /\ SetStatus(<< <<"A", 0>> >>, "wont-do")

SpecRepeat == InitRepeat /\ [][NextRepeat]_vars

\* notes are focused and prompts answered while time passes
InitTracker == Loaded(Vault(Note("daily", "open", 1), Note("none", "open", 1)))

NextTracker ==
    \/ VaultOk
    \/ Tick
    \/ \E t \in 1..Len(tasks), c \in Choices : PromptChoose(t, c)
    \/ Idle /\ \E p \in Existing : FocusEvent(p)

SpecTracker == InitTracker /\ [][NextTracker]_vars

\* a rule is set from the menu on notes that are completed already
InitRetro ==
    \E sb \in {"open", "complete"} :
        LoadedForOne(Vault(Note("none", "complete", 1), Note("none", sb, 1)))

NextRetro ==
    \/ VaultOk
    \/ \E files \in Batches, rule \in Rules : SetRecurrence(files, rule)
    \/ \E p \in Paths : TimerFire(p)

SpecRetro == InitRetro /\ [][NextRetro]_vars

\* a file of the selection that is not a markdown note
Attachment == <<"X", 0>>

\* selections of the file explorer: notes and other files, in any order
Selections ==
    {s \in UNION {[1..n -> {p \in Existing : p[2] = 0} \cup {Attachment}] :
                     n \in 1..(MaxBatch + 1)} :
        \A i, j \in DOMAIN s : i # j => s[i] # s[j]}

\* one call that goes to applyToFiles with nothing before it
InitApply == LoadedForOne(Vault(Note("daily", "open", 1), Note("none", "open", 1)))

NextApply ==
    \/ PatchStep
    \/ \E files \in Selections : SetScheduled(files, 2)
    \/ \E files \in Selections : UpdateScheduledDetails(files, 2, TRUE)
    \/ \E files \in Selections : SetRecurrence(files, "none")

SpecApply == InitApply /\ [][NextApply]_vars

\* the start-up scan over a completed note with any rule and any scheduled
\* date (0: none), started at any time
InitAnchor ==
    \E ra \in Rules, sa \in 0..(MaxDate - 1) :
        Loaded(Vault(Note(ra, "complete", sa), Note("none", "open", 1)))

NextAnchor ==
    \/ VaultOk
    \/ scan = "idle" /\ Tick
    \/ CheckMissingRecurrences

SpecAnchor == InitAnchor /\ [][NextAnchor]_vars

\* notes are focused while time passes and the prompt timeout is changed in
\* the settings tab
InitTimeout == Loaded(Vault(Note("daily", "open", 1), Note("none", "open", 1)))

NextTimeout ==
    \/ VaultOk
    \/ Tick
    \/ \E t \in 1..Len(tasks), c \in Choices : PromptChoose(t, c)
    \/ Idle /\ \E p \in Existing : FocusEvent(p)
    \/ Idle /\ \E d \in Durations : PromptTimeoutChange(d)

SpecTimeout == InitTimeout /\ [][NextTimeout]_vars

\* the notes of the vault that carry a rule
Recurring == {p \in Existing : HasRule(disk[p])}

\* two commands are left to the user
LoadedForTwo(d) == LoadedWith(d, MaxOps - 2)

\* two triggers on recurring notes, the second of which may come while the
\* prompt of the first is open; the prompts are answered without a split
InitOverlap ==
    \E rb \in {"daily", "none"} :
        LoadedForTwo(Vault(Note("daily", "open", 1), Note(rb, "open", 1)))

NextOverlap ==
    \/ PatchOk
    \/ \E t \in 1..Len(tasks), c \in Choices \ {"split"} : PromptChoose(t, c)
    \/ \E p \in Recurring : FocusEvent(p)
    \/ \E p \in Recurring : EditEvent(p)
    \/ \E p \in Recurring : UpdateFrontmatter(<<p>>, "priority", "high")

SpecOverlap == InitOverlap /\ [][NextOverlap]_vars

\* two triggers on the recurring note A, each of which may start a successor
\* flow (a split chosen at a prompt, or a terminal status from the menu) while
\* the flow of the other is under way; vault operations resolve, except a
\* create on a path that the other flow has taken
Source == <<"A", 0>>

InitRace == LoadedForTwo(Vault(Note("daily", "open", 1), Note("none", "open", 1)))

NextRace ==
    \/ VaultOk
    \/ \E t \in 1..Len(tasks) : CreateExists(t)
    \/ \E t \in 1..Len(tasks), c \in Choices : PromptChoose(t, c)
    \/ disk[Source].ex /\ FocusEvent(Source)
    \/ disk[Source].ex /\ EditEvent(Source)
    \/ disk[Source].ex /\ SetStatus(<<Source>>, "wont-do")

SpecRace == InitRace /\ [][NextRace]_vars

\* the start-up scan over a completed recurring note whose file name may
\* carry a date suffix already ("A 2" scheduled on day 1)
InitSuffix ==
    \E ra \in Rules, sfx \in {0, 2}, sb \in {"open", "complete"} :
        Loaded(With(Vault(NoFile, Note("daily", sb, 1)), <<"A", sfx>>, Note(ra, "complete", 1)))

NextSuffix ==
    \/ VaultStep
    \/ CheckMissingRecurrences

SpecSuffix == InitSuffix /\ [][NextSuffix]_vars

\* the plugin has loaded with the settings cfg over the vault d
LoadedUnder(cfg, d, used) ==
    /\ disk = d
    /\ cache = d
    /\ tracker = [p \in Paths |-> 0]
    /\ sessionDuration = cfg.recurrencePromptTimeout
    /\ now = 1
    /\ settings = cfg
    /\ tasks = <<>>
    /\ timers = {}
    /\ last = NoLast
    /\ ops = used
    /\ prompts = 0
    /\ scan = "idle"
    /\ series = [p \in Paths |-> Rank(p)]

\* "Enable Recurrence" is switched off in the settings: the start-up scan and
\* one trigger of any kind
InitDisabled ==
    \E sb \in {"open", "complete"} :
        LoadedUnder([DEFAULT_SETTINGS EXCEPT !.enableRecurrence = FALSE],
                    Vault(Note("daily", "open", 1), Note("daily", sb, 1)), MaxOps - 1)

NextDisabled ==
    \/ VaultOk
    \/ CheckMissingRecurrences
    \/ \E t \in 1..Len(tasks), c \in Choices : PromptChoose(t, c)
    \/ \E p \in Existing : FocusEvent(p)
    \/ \E p \in Existing : EditEvent(p)
    \/ \E p \in Existing : UpdateFrontmatter(<<p>>, "priority", "high")
    \/ \E p \in Existing, st \in TerminalInputs : SetStatus(<<p>>, st)

SpecDisabled == InitDisabled /\ [][NextDisabled]_vars

\* "Completion statuses that create next recurrence" is set to "done" in the
\* settings; one trigger on a recurring note of any status
InitConfigured ==
    \E sa \in Statuses, sb \in {"open", "done"} :
        LoadedUnder([DEFAULT_SETTINGS EXCEPT !.recurrenceCompletionStatuses = {"done"}],
                    Vault(Note("daily", sa, 1), Note("daily", sb, 1)), MaxOps - 1)

NextConfigured ==
    \/ VaultOk
    \/ \E t \in 1..Len(tasks), c \in Choices : PromptChoose(t, c)
    \/ \E p \in Existing : FocusEvent(p)
    \/ \E p \in Existing : EditEvent(p)
    \/ \E p \in Existing : UpdateFrontmatter(<<p>>, "priority", "high")

SpecConfigured == InitConfigured /\ [][NextConfigured]_vars

\* one trigger on a recurring note; the user answers the prompts or closes
\* them; every step that can be taken is taken in the end
InitDismiss ==
    \E rb \in {"daily", "none"} :
        LoadedForOne(Vault(Note("daily", "open", 1), Note(rb, "open", 1)))

NextDismiss ==
    \/ VaultOk
    \/ \E t \in 1..Len(tasks), c \in Choices : PromptChoose(t, c)
    \/ \E t \in 1..Len(tasks) : PromptDismiss(t)
    \/ \E p \in Existing : FocusEvent(p)
    \/ \E p \in Existing : EditEvent(p)
    \/ \E p \in Existing : UpdateFrontmatter(<<p>>, "priority", "high")

SpecDismiss == InitDismiss /\ [][NextDismiss]_vars /\ WF_vars(NextDismiss)

\* no frontmatter write is under way: a write takes far less than the
\* suppression window, so time passes between writes only
NoWritePending == \A t \in 1..Len(tasks) : ~AwaitsPfm(TopFrame(t))

\* bulk mutations from the menus, one after the other, with focus and edit
\* triggers between them while time passes; prompts are answered without a
\* split
InitMarked ==
    \E rb \in {"daily", "none"} :
        LoadedForTwo(Vault(Note("daily", "open", 1), Note(rb, "open", 1)))

NextMarked ==
    \/ PatchStep
    \/ NoWritePending /\ Tick
    \/ \E t \in 1..Len(tasks), c \in Choices \ {"split"} : PromptChoose(t, c)
    \/ Idle /\ \E files \in Batches : SetScheduled(files, 2)
    \/ Idle /\ \E files \in Batches : SetRecurrence(files, "none")
    \/ Idle /\ \E files \in Batches : AddTag(files)
    \/ Idle /\ \E files \in Batches : UpdateFrontmatter(files, "priority", "high")
    \/ Idle /\ \E files \in Batches : SetStatus(files, "open")
    \/ Idle /\ \E p \in Existing : FocusEvent(p)
    \/ Idle /\ \E p \in Existing : EditEvent(p)

SpecMarked == InitMarked /\ [][NextMarked]_vars

\* ------------------------------------------------------------------ claims
\* C2 (P4, terminal invariant): when checkMissingRecurrences completes, no
\* note of the set it enumerated has both a status in the configured terminal
\* set and a recurrenceRule / recurrence field.
C2_ScanLeavesNoTerminalRule ==
    last.fn = "checkMissingRecurrences" =>
        \A k \in 1..Len(last.files) :
            ~(disk[last.files[k]].status \in recurrenceStatuses /\ HasRule(disk[last.files[k]]))

\* C3 (terminal transition): once setStatus(files, s) with s in the terminal
\* set has returned (recurrence enabled), no note in files has both status s
\* and a recurrenceRule / recurrence field.
C3_SetStatusLeavesNoTerminalRule ==
    (last.fn = "setStatus" /\ ~last.rej /\ settings.enableRecurrence
     /\ last.upd.val \in recurrenceStatuses) =>
        \A k \in 1..Len(last.files) :
            ~(disk[last.files[k]].status = last.upd.val /\ HasRule(disk[last.files[k]]))

\* the step in which task t writes a terminal status to note p
TerminalStatusPatch(t, p) ==
    /\ ProcessFrontMatterOk(t)
    /\ TopFrame(t).fn = "applyToFiles"
    /\ TopFrame(t).upd.op = "set" /\ TopFrame(t).upd.key = "status"
    /\ TopFrame(t).upd.val \in recurrenceStatuses
    /\ settings.enableRecurrence
    /\ PfmPath(TopFrame(t)) = p

\* C8: a terminal status requested through setStatus or through
\* updateFrontmatter with a status key is written to a rule-bearing note only
\* after the successor flow has been run for that note by the same call.
C8_FlowBeforeTerminalPatch ==
    [][\A t \in 1..Len(tasks), p \in Paths :
          (TerminalStatusPatch(t, p) /\ HasRule(disk[p])) => p \in tasks[t].g.flowed]_vars

\* the notes of series n that are still recurring: rule-bearing, not terminal
ActiveIn(n) ==
    {p \in Paths : /\ disk[p].ex /\ series[p] = n
                   /\ HasRule(disk[p]) /\ disk[p].status \notin recurrenceStatuses}

\* C1 (I1, series uniqueness): once the healing pass has run and no call is in
\* flight, each series (the notes linked by successor creation) holds at most
\* one note that is outside the terminal set and carries a rule.
C1_SeriesUniqueness ==
    (scan = "done" /\ tasks = <<>>) =>
        \A n \in {series[p] : p \in Paths} : Cardinality(ActiveIn(n)) <= 1

MutationEntryPoints == {"updateFrontmatter", "setPriority", "addTag", "removeTag",
                        "setScheduled", "updateScheduledDetails"}

\* the step in which the call of task t writes its field patch to note p
FieldPatch(t, p) ==
    /\ ProcessFrontMatterOk(t)
    /\ tasks[t].top.fn \in MutationEntryPoints
    /\ TopFrame(t).fn = "applyToFiles" /\ TopFrame(t).upd = tasks[t].top.upd
    /\ PfmPath(TopFrame(t)) = p

\* C9: every frontmatter mutation entry point (updateFrontmatter, setPriority,
\* addTag, removeTag, setScheduled, updateScheduledDetails) has consulted the
\* orchestrator for a rule-bearing, non-terminal, unsuppressed note of its
\* batch before it applies its field patch to that note.
C9_ConsultBeforePatch ==
    [][\A t \in 1..Len(tasks), p \in Paths :
          (FieldPatch(t, p) /\ p \in tasks[t].g.due) => p \in tasks[t].g.consulted]_vars

PromptingEntryPoints == {"updateFrontmatter", "setPriority", "addTag", "removeTag"}

\* C5 (P5, cancel is inert): when the user has chosen cancel at a prompt raised
\* by updateFrontmatter, setPriority, addTag or removeTag, the call returns 0
\* and its mutation has been applied to none of the files passed to it.
C5_CancelIsInert ==
    (last.fn \in PromptingEntryPoints /\ last.g.cancelled) =>
        /\ ~last.rej /\ last.r = "count" /\ last.rn = 0
        /\ last.g.applied = {}
        /\ \A k \in 1..Len(last.files) :
              disk[last.files[k]].priority = "none" /\ ~disk[last.files[k]].tags

\* a batch call cancelled at its second prompt, after the first was answered
C5_CancelledAtSecondPrompt ==
    /\ last.fn \in PromptingEntryPoints /\ last.g.cancelled
    /\ Len(last.files) = 2
    /\ Cardinality(last.g.consulted) = 2

\* the task in which split was chosen for a rule-bearing note N has ended
SplitDone == last.g.split.on /\ HasRule(last.g.split.pre) /\ ~last.rej

\* a note without its rule fields and without the field the call itself sets
Strip(fm, upd) ==
    [fm EXCEPT !.rule = "none", !.recurrence = "none",
               !.priority = IF upd.op = "set" /\ upd.key = "priority" THEN "none" ELSE @]

Range(sq) == {sq[k] : k \in 1..Len(sq)}

\* every finished call of createNextRecurrenceInstance on record
AllCalls == Range(last.g.cn) \cup UNION {Range(tasks[t].g.cn) : t \in 1..Len(tasks)}

\* C6 (P2, idempotent successor), as claimed: a call of
\* createNextRecurrenceInstance that finds its derived path taken creates no
\* file, leaves the source without a rule and reports handled = true.
C6_TakenPathIsHandled ==
    \A c \in AllCalls : c.existed => (~c.made /\ ~c.ruled /\ c.r = "true")

\* C6 amended: such a call creates no file; it reports handled = true with
\* the source left without a rule, or, only when the write that removes the
\* rule rejected, handled = false.  The calls made for one source note and
\* date therefore create one file at most.
C6_TakenPathAmended ==
    /\ \A c \in AllCalls :
          c.existed => /\ ~c.made
                       /\ c.r = "true" => ~c.ruled
                       /\ c.r = "false" => c.at = "true"
    /\ Cardinality({p \in Existing : series[p] = series[<<"A", 0>>]}) <= 2

\* a second call for the source finds the successor the first call created
C6_SecondCallFindsSuccessor ==
    /\ last.fn = "setStatus" /\ Len(last.g.cn) = 1
    /\ last.g.cn[1].existed /\ last.g.cn[1].r = "true"
    /\ series[last.g.cn[1].np] = series[last.g.cn[1].file]
    /\ ~HasRule(disk[last.g.cn[1].file])

NoNextDate == {"garbage", "once"}

\* C10 (unparseable or exhausted rule), as claimed: getNextOccurrence returns
\* null for such a rule, and createNextRecurrenceInstance then leaves the
\* source without a rule, creates no file and reports handled = true.
C10_NoDateIsHandled ==
    /\ \A rule \in NoNextDate, d \in 0..MaxDate : getNextOccurrence(rule, d) = 0
    /\ \A c \in AllCalls :
          c.rule \in NoNextDate => (c.nd = 0 /\ ~c.made /\ ~c.ruled /\ c.r = "true")

\* C10 amended: as claimed, except that handled = false is reported, and the
\* rule may stay, when the write that removes the rule rejected.
C10_NoDateAmended ==
    /\ \A rule \in NoNextDate, d \in 0..MaxDate : getNextOccurrence(rule, d) = 0
    /\ \A c \in AllCalls :
          c.rule \in NoNextDate => /\ c.nd = 0 /\ ~c.made /\ ~c.existed
                                   /\ c.r = "true" => ~c.ruled
                                   /\ c.r = "false" => c.at = "true"

\* the scan has cleared a rule that cannot be parsed
C10_GarbageCleared ==
    /\ last.fn = "checkMissingRecurrences" /\ Len(last.g.cn) = 1
    /\ last.g.cn[1].rule = "garbage" /\ last.g.cn[1].r = "true"
    /\ ~HasRule(disk[last.g.cn[1].file])
    /\ Cardinality(Existing) = 2

\* C7 (P3, suppression window): a note marked at time T and focused at time t
\* is suppressed (no prompt, entry kept) when t - T <= window, and is not
\* suppressed when t - T > window, the expired entry being removed by the query.
C7_SuppressionWindow ==
    [][\A p \in Paths :
          (FocusEvent(p) /\ tracker[p] # 0) =>
              IF now - tracker[p] <= sessionDuration
              THEN tasks' = tasks /\ tracker' = tracker /\ last'.fn = "handleFileFocus"
              ELSE /\ tracker'[p] = 0
                   /\ (HasRule(cache[p]) /\ ~HardTerminal(cache[p])) =>
                          Len(tasks') = Len(tasks) + 1]_vars

\* a focus at the last instant of the window has been suppressed
C7_SuppressedAtEdge ==
    /\ last.fn = "handleFileFocus" /\ last.r = "void"
    /\ HasRule(cache[last.files[1]]) /\ ~HardTerminal(cache[last.files[1]])
    /\ tracker[last.files[1]] # 0
    /\ now - tracker[last.files[1]] = sessionDuration

PublicEntryPoints == {"setStatus", "updateFrontmatter", "addTag", "removeTag",
                      "setRecurrence", "checkMissingRecurrences"}

\* C11 (I/O failure isolation): a call of a public entry point on a batch of
\* notes never rejects, whatever vault operation fails while one of the notes
\* is handled.
C11_EntryPointsNeverReject ==
    (last.fn \in PublicEntryPoints /\ Len(last.files) > 1) => ~last.rej

\* C12 (focus prompt, apply to series): when the prompt of a focused note is
\* answered "update-all", no note is created or modified and the note is marked;
\* a later focus of a note inside its suppression window opens no prompt.
C12_UpdateAllOnFocus ==
    [][/\ \A t \in 1..Len(tasks) :
            (TopFrame(t).fn = "handleFileFocus" /\ Len(tasks[t].st) = 1
             /\ PromptChoose(t, "update-all")) =>
                /\ disk' = disk /\ series' = series
                /\ tracker'[tasks[t].top.files[1]] = now
                /\ last'.r = "update-all"
       /\ \A p \in Paths :
            (FocusEvent(p) /\ tracker[p] # 0 /\ now - tracker[p] <= sessionDuration) =>
                tasks' = tasks /\ last'.r = "void" /\ disk' = disk
       /\ \A p \in Paths :
            (FocusEvent(p) /\ last.fn = "handleFileFocus" /\ last.r = "update-all"
             /\ last.files = <<p>>) => tasks' = tasks]_vars

\* the prompt of a focused recurring note has been answered "update-all"
C12_SeriesChosenOnFocus ==
    /\ last.fn = "handleFileFocus" /\ last.r = "update-all"
    /\ HasRule(disk[last.files[1]]) /\ ~HardTerminal(disk[last.files[1]])
    /\ tracker[last.files[1]] = now
    /\ Cardinality(Existing) = 2

\* nothing is pending: no call, no timer, and the index has caught up
Quiescent == tasks = <<>> /\ timers = {} /\ cache = disk

\* C13 (retroactive rule on a completed note): once setRecurrence has set a
\* rule on a note with a terminal status and everything it started has run
\* (the timer included), the note has no rule fields left.
C13_RetroactiveRuleHandled ==
    Quiescent => \A p \in Existing :
                    ~(disk[p].status \in recurrenceStatuses /\ HasRule(disk[p]))

DirectApplyCalls == {"setScheduled", "updateScheduledDetails", "setRecurrence"}

MarkdownOf(files) == {files[k] : k \in {i \in 1..Len(files) : IsMd(files[i])}}

\* C14: applyToFiles returns the number of markdown files whose patch
\* succeeded; every markdown file of the list is attempted, whether or not an
\* earlier patch failed; files that are not markdown are neither patched nor
\* counted.
C14_CountsSuccessfulPatches ==
    (last.fn \in DirectApplyCalls /\ last.r = "count") =>
        /\ ~last.rej
        /\ last.rn = Cardinality(last.g.applied)
        /\ last.g.applied \cap last.g.failed = {}
        /\ last.g.applied \cup last.g.failed = MarkdownOf(last.files)

\* a call over a note whose patch failed, a file that is not markdown and a
\* later note whose patch succeeded has returned 1
C14_FailureThenSuccess ==
    /\ last.fn = "setScheduled" /\ last.rn = 1
    /\ \E i, j, k \in 1..Len(last.files) :
          /\ i < j /\ last.files[i] \in last.g.failed /\ last.files[j] \in last.g.applied
          /\ ~IsMd(last.files[k])

\* the anchor of a note scheduled on day D (0: not scheduled)
Anchor(D) == IF D # 0 THEN D ELSE DayOf(now)

\* the frames of all pending calls
Frames == UNION {Range(tasks[t].st) : t \in 1..Len(tasks)}

\* C15 (P1, anchor correctness): getNextOccurrence(rule, D) is null or a date
\* strictly after the anchor, which is D, or the current date when the note
\* has no scheduled value; so is every date createNextRecurrenceInstance
\* derives a path from.
C15_NextIsAfterAnchor ==
    /\ \A rule \in Rules, D \in 0..MaxDate :
          getNextOccurrence(rule, D) = 0 \/ getNextOccurrence(rule, D) > Anchor(D)
    /\ \A f \in Frames :
          (f.fn = "createNextRecurrenceInstance" /\ f.nd # 0) =>
              f.nd > Anchor(f.fm.scheduled) /\ f.np = newFilePath(f.file, f.nd)
    /\ \A c \in AllCalls : c.made => disk[c.np].scheduled \in {c.nd, disk[c.file].scheduled}

\* the scan has created the successor of a note that has no scheduled value,
\* dated after the day of the scan
C15_SuccessorAnchoredOnNow ==
    /\ last.fn = "checkMissingRecurrences" /\ now > TicksPerDay
    /\ \E c \in Range(last.g.cn) :
          /\ c.made /\ c.r = "true" /\ disk[c.file].scheduled = 0
          /\ c.nd = DayOf(now) + 1 /\ disk[c.np].scheduled = c.nd

\* C16 (live-reconfigurable window): a change of the prompt-timeout setting
\* leaves the stored timestamps as they are, and every later check of a marked
\* note compares its age against the duration now in the settings.
C16_WindowFollowsSetting ==
    [][/\ \A d \in Durations : PromptTimeoutChange(d) => tracker' = tracker
       /\ \A p \in Paths :
            (FocusEvent(p) /\ tracker[p] # 0) =>
                IF now - tracker[p] <= settings.recurrencePromptTimeout
                THEN tasks' = tasks /\ tracker' = tracker
                ELSE tracker'[p] = 0]_vars

\* task t waits at a decision prompt for note p
PromptPending(t, p) == TopFrame(t).pc = "prompt" /\ TopFrame(t).file = p

\* C17 (overlapping prompts): the suppression check comes before the prompt
\* and the mark after its answer, so a note with a prompt pending is still
\* unmarked by that prompt's trigger, and a second trigger on the note (a
\* content edit after a focus) opens a second prompt while the first is open.
C17_SecondTriggerPrompts ==
    [][\A p \in Paths :
          (EditEvent(p) /\ (\E t \in 1..Len(tasks) : PromptPending(t, p))
           /\ tracker[p] = 0 /\ HasRule(cache[p]) /\ ~HardTerminal(cache[p])) =>
              /\ Len(tasks') = Len(tasks) + 1
              /\ tasks'[Len(tasks')].top.fn = "handleFileModification"
              /\ tasks'[Len(tasks')].st[1].pc = "prompt"
              /\ tracker'[p] = 0]_vars

\* two prompts for one note are open at the same time
C17_TwoPromptsPending ==
    \E t, u \in 1..Len(tasks), p \in Paths :
        t # u /\ PromptPending(t, p) /\ PromptPending(u, p)

\* the path of the successor that the flows for the source derive
Target == newFilePath(Source, getNextOccurrence("daily", 1))

\* the successor flows for note p that have created a file, among the calls
\* pending and the call that ended last
Makers(p) ==
    {t \in 1..Len(tasks) :
        \/ \E f \in Range(tasks[t].st) :
              f.fn = "createNextRecurrenceInstance" /\ f.file = p /\ f.made
        \/ \E c \in Range(tasks[t].g.cn) : c.file = p /\ c.made}

\* C18 (I2, rule singularity under interleaving): the successor flows under
\* way for one source note derive the same path and at most one of them
\* creates the file; when the flows have ended with the successor created,
\* the source has no rule fields left.
C18_OneSuccessorSourceCleared ==
    /\ Cardinality(Makers(Source)) <= 1
    /\ \A f \in Frames :
          (f.fn = "createNextRecurrenceInstance" /\ f.file = Source /\ f.nd # 0) =>
              f.np = Target
    /\ (tasks = <<>> /\ disk[Target].ex) =>
          series[Target] = series[Source] /\ ~HasRule(disk[Source])

\* a flow that found the successor path free has failed to create the file,
\* which the other flow had created meanwhile
C18_CreateCollided ==
    /\ tasks = <<>> /\ ~HasRule(disk[Source])
    /\ \E c \in Range(last.g.cn) :
          /\ c.file = Source /\ ~c.existed /\ ~c.made /\ c.at = "create" /\ c.r = "false"
          /\ c.np = Target /\ disk[Target].ex /\ series[Target] = series[Source]


\* C19 (one prompt per trigger): in the flow in which the user chose split
\* for a note, no further decision prompt is opened for that note: the call
\* never waits at a prompt for the note again after the split answer.
C19_NoPromptAfterSplit ==
    \A t \in 1..Len(tasks) :
        tasks[t].g.split.on => ~PromptPending(t, tasks[t].g.split.file)


\* task t awaits a write of createNextRecurrenceInstance: the field patch on
\* the new successor or the rule clearing on the source
OwnWrite(t) ==
    LET st == tasks[t].st
        f == st[Len(st)]
    IN  \/ f.fn = "createNextRecurrenceInstance" /\ f.pc = "patchNew"
        \/ /\ f.fn = "clearRecurrenceRule" /\ f.pc = "pfm" /\ Len(st) > 1
           /\ st[Len(st) - 1].fn = "createNextRecurrenceInstance"

\* C20 (the engine's own writes raise no prompt): a write performed by
\* createNextRecurrenceInstance, the patch of the successor or the clearing
\* of the source, does not make the vault's modify listener open a decision
\* prompt.
C20_OwnWritesRaiseNoPrompt ==
    [][\A t \in 1..Len(tasks) :
          (OwnWrite(t) /\ ProcessFrontMatterOk(t)) => prompts' = prompts]_vars


\* C21 (no series ended without a successor): whenever a call of
\* createNextRecurrenceInstance that computed a next date reports handled =
\* true, a note other than the source exists at the path it derived.
C21_HandledHasSuccessor ==
    \A c \in AllCalls : (c.r = "true" /\ c.nd # 0) => (disk[c.np].ex /\ c.np # c.file)


\* the entry points that ask promptForFrontmatterChange before they patch
PromptingMutations == {"updateFrontmatter", "setPriority", "addTag", "removeTag"}

\* C22 (cancel marks the note): when the user cancels the prompt that a
\* frontmatter mutation raised for a note, the note is inside the suppression
\* window afterwards, so that an immediate retry of the mutation opens no
\* prompt.
C22_CancelMarksNote ==
    [][\A t \in 1..Len(tasks) :
          (/\ tasks[t].top.fn \in PromptingMutations
           /\ TopFrame(t).fn = "promptForFrontmatterChange"
           /\ Len(tasks[t].st) = 2
           /\ PromptChoose(t, "cancel"))
          => wasRecentlyModified(tracker', TopFrame(t).file).res]_vars


\* C23 (suppressed triggers refresh the timestamp): a focus of a note inside
\* the suppression window opens no prompt and sets the note's interaction
\* timestamp to the current time.
C23_SuppressedFocusRefreshes ==
    [][\A p \in Paths :
          (wasRecentlyModified(tracker, p).res /\ FocusEvent(p))
          => (tasks' = tasks /\ tracker'[p] = now)]_vars


\* C24 (feature switch): while enableRecurrence is false no decision prompt
\* is open, no successor flow is under way or has been run, and no rule is
\* being cleared.
C24_DisabledIsInert ==
    ~settings.enableRecurrence =>
        /\ \A f \in Frames :
              /\ f.pc # "prompt"
              /\ f.fn \notin {"createNextRecurrenceInstance", "clearRecurrenceRule"}
        /\ AllCalls = {}


\* a focus, a content edit or a field change from the menu on note p
EditTrigger(p) ==
    \/ FocusEvent(p)
    \/ EditEvent(p)
    \/ UpdateFrontmatter(<<p>>, "priority", "high")

\* the step has started a call that waits at a decision prompt for note p
PromptOpened(p) ==
    /\ Len(tasks') = Len(tasks) + 1
    /\ LET st == tasks'[Len(tasks')].st
       IN  st[Len(st)].pc = "prompt" /\ st[Len(st)].file = p

\* C25 (configured terminal set): a trigger on an indexed rule-bearing note
\* outside the suppression window opens an edit-scope prompt exactly when the
\* note's status is outside the configured set recurrenceCompletionStatuses.
C25_PromptFollowsConfiguredSet ==
    [][\A p \in Paths :
          (/\ HasRule(cache[p]) /\ cache[p] = disk[p]
           /\ ~wasRecentlyModified(tracker, p).res
           /\ EditTrigger(p))
          => (PromptOpened(p) <=> cache[p].status \notin recurrenceStatuses)]_vars


\* a note without its rule fields
NoRule(fm) == [fm EXCEPT !.rule = "none", !.recurrence = "none"]

\* an updateFrontmatter call has ended in which split was chosen at the
\* prompt for the rule-bearing note N and the successor of N was created
SplitAtMutation ==
    /\ last.fn = "updateFrontmatter" /\ SplitDone
    /\ Len(last.g.cn) >= 1
    /\ last.g.cn[1].file = last.g.split.file /\ last.g.cn[1].made

\* C26 (split uses the pre-mutation snapshot): when split is chosen at the
\* prompt of a frontmatter mutation, the successor is the note as it was
\* before the mutation, moved to the next date with the default status; the
\* mutation is then written to the source and to no other note.
C26_SplitBeforeMutation ==
    SplitAtMutation =>
        LET N == last.g.split.file
            c == last.g.cn[1]
            made == [NoUpd EXCEPT !.op = "newInstance", !.num = c.nd,
                                  !.key = baseName(N), !.val = newStatus]
        IN  /\ NoRule(disk[c.np]) = NoRule(ApplyUpd(made, last.g.split.pre))
            /\ disk[c.np] # ApplyUpd(last.upd, disk[c.np])
            /\ N \in last.g.applied /\ c.np \notin last.g.applied
            /\ disk[N] = ApplyUpd(last.upd, disk[N])

\* a priority change answered with split: the source has the new priority,
\* the successor has not
C26_SplitAtMenuPrompt ==
    /\ SplitAtMutation
    /\ disk[last.g.split.file].priority = "high"
    /\ disk[last.g.cn[1].np].priority = "none"
    /\ disk[last.g.cn[1].np].scheduled = 2


\* a call waits for a prompt that the user has closed
Dismissed == \E t \in 1..Len(tasks) : TopFrame(t).pc = "dismissed"

\* C27 (prompts resolve): a prompt the user has acted on resolves, also when
\* the user closed the dialog without picking an option, so that the call
\* that awaits it returns in the end.
C27_DismissedPromptResolves == Dismissed ~> ~Dismissed


\* C28 (a cancelled batch changes nothing): when an updateFrontmatter call
\* over several notes has returned on a cancel, the vault is as it was when
\* the call was made: no note created, none modified.
C28_CancelledBatchIsInert ==
    (last.fn \in {"updateFrontmatter", "setPriority"} /\ last.g.cancelled) =>
        \E rb \in {"daily", "none"} :
            disk = Vault(Note("daily", "open", 1), Note(rb, "open", 1))


\* the notes the call that has just returned patched or tried to patch
Attempted == last.g.applied \cup last.g.failed

\* C29 (bulk mutations mark their notes): applyToFiles has marked a note when
\* the patch of the note is attempted, whether the patch succeeds or fails;
\* so a focus, an edit or a field change of a note right after a mutation
\* that reached applyToFiles for it, or at any time inside the suppression
\* window, opens no prompt.
C29_AttemptedNotesAreSuppressed ==
    [][/\ \A t \in 1..Len(tasks) :
            (/\ TopFrame(t).fn = "applyToFiles"
             /\ ProcessFrontMatterOk(t) \/ ProcessFrontMatterFail(t))
            => wasRecentlyModified(tracker, PfmPath(TopFrame(t))).res
       /\ \A p \in Paths :
            (/\ p \in Attempted \/ wasRecentlyModified(tracker, p).res
             /\ EditTrigger(p))
            => ~PromptOpened(p)]_vars

\* a mutation has returned whose patch of a recurring note failed, and the
\* note is inside the suppression window
C29_FailedPatchStillMarked ==
    /\ last.fn \in {"setScheduled", "setRecurrence", "addTag", "updateFrontmatter", "setStatus"}
    /\ \E p \in last.g.failed :
          /\ HasRule(disk[p]) /\ cache[p] = disk[p] /\ ~HardTerminal(disk[p])
          /\ wasRecentlyModified(tracker, p).res


\* a note the healing scan is for: rule present and status in the terminal set
PendingHeal(fm) == HasRule(fm) /\ fm.status \in recurrenceStatuses

\* C30 (the scan touches pending-heal notes only): checkMissingRecurrences
\* runs the successor flow for pending-heal notes only; every write to the
\* vault is to the source of such a flow or to the successor the flow has
\* created; and when the scan has ended, no enumerated note that it did not
\* run the flow for is pending heal.
C30_ScanTouchesPendingOnly ==
    [][/\ \A f \in Frames :
            f.fn = "createNextRecurrenceInstance" => PendingHeal(f.fm)
       /\ \A q \in Paths :
            disk'[q] # disk[q] =>
                \E f \in Frames :
                    /\ f.fn = "createNextRecurrenceInstance"
                    /\ q = f.file \/ (q = f.np /\ (f.made \/ ~disk[q].ex))
       /\ last'.fn = "checkMissingRecurrences" =>
            \A p \in Range(last'.files) :
                p \in last'.g.flowed \/ ~PendingHeal(disk'[p])]_vars

\* the scan has ended: it created the successor of the completed note A and
\* left the open recurring note B as it was, without a successor
C30_HealedOneLeftOther ==
    /\ last.fn = "checkMissingRecurrences"
    /\ last.g.flowed = {<<"A", 0>>}
    /\ \E c \in Range(last.g.cn) : c.made /\ disk[c.np].ex
    /\ disk[<<"B", 0>>] = Note("daily", "open", 0)
    /\ \A d \in 1..MaxDate : ~disk[<<"B", d>>].ex

====
